---- MODULE Spec2Model ----
(***************************************************************************)
(* Data layer of the portfolio application: ProjectService (src/src/App.js *)
(* lines 158-303), a mock API over two in-memory collections that are      *)
(* written to localStorage as whole documents after every mutation.        *)
(*                                                                         *)
(* Every service method is `await this.delay(ms)` followed by a            *)
(* synchronous body.  A call is therefore modelled by two steps: the call  *)
(* (a timer is registered, due at now + ms) and the firing of its timer,   *)
(* which runs the whole body, storage write included, as one step.         *)
(*                                                                         *)
(* Text is modelled as sequences of one-character strings wherever the     *)
(* code cuts or joins it (ids, technologies, timestamps).  Records are     *)
(* functions from field names, so that a field can be absent (undefined).  *)
(***************************************************************************)
EXTENDS Integers, Sequences, FiniteSets, TLC

VARIABLES
    projects,   \* this.projects, when it is an array: its elements
    contacts,   \* this.contacts, when it is an array: its elements
    shape,      \* what this.projects and this.contacts are: "array", or what else
                \* the constructor read from localStorage
    stored,     \* localStorage: key |-> <<>> (no item) or <<text of the item>>
    now,        \* the clock, in milliseconds (Date.now())
    timers,     \* setTimeout / setInterval timers, in the order they were registered
    issued,     \* number of calls made so far: all, and of the project methods
    faults,     \* number of localStorage.setItem calls that threw so far
    res,        \* the call that completed last: method, argument, outcome
    hist,       \* history of each collection: ids ever held, id draws, last write
    permission, \* Notification.permission
    hidden,     \* document.hidden
    mounted,    \* whether ProjectAdmin, the owner of useContactNotifications, is mounted
    unreadCount,        \* the state of useContactNotifications
    polled,     \* history of the poller: evaluations, notifications, requests
    searchTerm,         \* ProjectList: the text of the search box
    debouncedSearchTerm, \* ProjectList: useDebounce(searchTerm, 300)
    settled,    \* history of useDebounce: changes of the debounced value
    listed,     \* ProjectList: the projects state (what fetchAll resolved to)
    selectedTechnology, \* ProjectList: the facet chosen
    listMounted,        \* whether ProjectList, the owner of useDebounce, is mounted
    contactsShown,      \* ContactManager: the contacts state
    filter      \* ContactManager: the selector chosen

\* the service
service == <<projects, contacts, shape, stored, issued, faults, res, hist>>
\* the host and the poller
poller == <<permission, hidden, mounted, unreadCount, polled>>
\* the search box
search == <<searchTerm, debouncedSearchTerm, settled>>
\* the lists on display and their filters
views == <<listed, selectedTechnology, listMounted, contactsShown, filter>>

vars == <<projects, contacts, shape, stored, now, timers, issued, faults, res, hist,
          permission, hidden, mounted, unreadCount, polled,
          searchTerm, debouncedSearchTerm, settled,
          listed, selectedTechnology, listMounted, contactsShown, filter>>

----------------------------------------------------------------------------
(* Bounds of the model *)

\* calls made in one run
MaxCalls == 3
\* calls suspended at the same time
MaxPending == 2
\* calls of the project methods (fetchAll, save, delete) made in one run
MaxProjectCalls == 2
\* calls made in a run that calls both project methods and contact methods
MaxMixedCalls == 2
\* localStorage.setItem failures in one run
MaxFaults == 1
\* first clock reading of the session, in milliseconds
Clock0 == 1000
\* evaluations of the poller in one run: one when the admin view is mounted,
\* one each time the interval fires
MaxEvaluations == 3
\* calls made in a run with the poller
MaxPolledCalls == 1
\* calls made in a run of saves and deletes a short time apart
MaxOrderedCalls == 2
\* changes of the search box in one run
MaxChanges == 3
\* the shortest time between two events that no timer separates, in milliseconds
Pause == 100

----------------------------------------------------------------------------
(* CONFIG.API_DELAY and the literal delays of markAsRead / markAsReplied *)

FETCH == 600
SAVE == 800
DELETE == 500
CONTACT == 700
MARK_READ == 200
MARK_REPLIED == 200
\* setInterval(checkForNewMessages, 30000)
POLL_INTERVAL == 30000
\* useDebounce(searchTerm, 300)
DEBOUNCE == 300

----------------------------------------------------------------------------
(* JavaScript values *)

Null == "null"
\* a File object chosen in the form (ProjectForm.handleImageChange)
File == "[object File]"
\* JSON.stringify of an object without own enumerable properties
EmptyObject == "{}"

Has(r, f) == f \in DOMAIN r

\* `x || null` for an image field that may be absent
OrNull(r, f) == IF Has(r, f) /\ r[f] # Null /\ r[f] # "" THEN r[f] ELSE Null

\* a truthy _id: present and not the empty string
HasId(r) == Has(r, "_id") /\ r["_id"] # <<>>

Range(s) == {s[i] : i \in 1..Len(s)}

----------------------------------------------------------------------------
(* Text *)

DigitChars == <<"0", "1", "2", "3", "4", "5", "6", "7", "8", "9">>

RECURSIVE Digits(_)
\* decimal text of a number: what `'p' + Date.now()` appends
Digits(n) == IF n < 10 THEN <<DigitChars[n + 1]>>
             ELSE Digits(n \div 10) \o <<DigitChars[(n % 10) + 1]>>

DigitValue(c) == CHOOSE d \in 0..9 : DigitChars[d + 1] = c

RECURSIVE ParseDigits(_)
ParseDigits(s) == IF s = <<>> THEN 0
                  ELSE 10 * ParseDigits(SubSeq(s, 1, Len(s) - 1)) + DigitValue(s[Len(s)])

\* new Date(ms).toISOString(): the text of an instant.  The model writes the
\* instant as the decimal text of its millisecond count.
toISOString(ms) == Digits(ms)

\* new Date(text) used as a number: the millisecond count of the instant
DateValue(text) == ParseDigits(text)

RECURSIVE split(_, _)
\* String.prototype.split(sep): the pieces between the separators
split(s, sep) ==
    IF \A i \in 1..Len(s) : s[i] # sep THEN <<s>>
    ELSE LET k == CHOOSE i \in 1..Len(s) : s[i] = sep /\ \A j \in 1..(i - 1) : s[j] # sep
         IN  <<SubSeq(s, 1, k - 1)>> \o split(SubSeq(s, k + 1, Len(s)), sep)

RECURSIVE trim(_)
\* String.prototype.trim
trim(s) == IF s = <<>> THEN s
           ELSE IF s[1] = " " THEN trim(Tail(s))
           ELSE IF s[Len(s)] = " " THEN trim(SubSeq(s, 1, Len(s) - 1))
           ELSE s

\* .map(tech => tech.trim()).filter(tech => tech)
trimAndDropEmpty(pieces) ==
    SelectSeq([i \in 1..Len(pieces) |-> trim(pieces[i])], LAMBDA t : t # <<>>)

----------------------------------------------------------------------------
(* Identifiers *)

\* Math.random().toString(36).substr(2, 9): up to nine characters of 0-9a-z.
\* Nothing in the code makes two draws differ.
Suffixes == {<<"a">>, <<"7">>}

\* newId without the clock reading: the id is the prefix and the random suffix
newId_noClock(prefix, ms, suffix) == <<prefix>> \o suffix

\* 'p' + Date.now() + suffix, and 'c' + Date.now() + suffix
newId(prefix, ms, suffix) == <<prefix>> \o Digits(ms) \o suffix

\* an id that no record ever carries
UnknownId == <<"z">>

----------------------------------------------------------------------------
(* INITIAL_PROJECTS.  createdAt is a day of early 2024, before the session: *)
(* 15 January, 20 February and 10 March are written 115, 220 and 310.       *)

INITIAL_PROJECTS == <<
    [_id |-> <<"p", "1">>,
     title |-> "MERN Stack E-Commerce",
     description |-> "A full-featured shopping platform",
     technologies |-> <<<<"M", "o", "n", "g", "o", "D", "B">>,
            <<"E", "x", "p", "r", "e", "s", "s">>,
            <<"R", "e", "a", "c", "t">>,
            <<"N", "o", "d", "e", ".", "j", "s">>,
            <<"S", "t", "r", "i", "p", "e">>>>,
     liveUrl |-> "https://example-ecommerce.com",
     githubUrl |-> "https://github.com/example/ecommerce",
     isContact |-> FALSE,
     createdAt |-> toISOString(115)],
    [_id |-> <<"p", "2">>,
     title |-> "Real-Time Chat App",
     description |-> "Built with Socket.io for instant messaging",
     technologies |-> <<<<"N", "o", "d", "e", ".", "j", "s">>,
            <<"S", "o", "c", "k", "e", "t", ".", "i", "o">>,
            <<"R", "e", "a", "c", "t">>,
            <<"T", "a", "i", "l", "w", "i", "n", "d">>>>,
     liveUrl |-> "https://example-chat.com",
     githubUrl |-> "https://github.com/example/chat-app",
     isContact |-> FALSE,
     createdAt |-> toISOString(220)],
    [_id |-> <<"p", "3">>,
     title |-> "Data Visualization Dashboard",
     description |-> "Interactive dashboard using D3.js",
     technologies |-> <<<<"T", "y", "p", "e", "S", "c", "r", "i", "p", "t">>,
            <<"D", "3", ".", "j", "s">>,
            <<"R", "e", "a", "c", "t">>>>,
     liveUrl |-> "https://example-dashboard.com",
     githubUrl |-> "https://github.com/example/dashboard",
     isContact |-> FALSE,
     createdAt |-> toISOString(310)] >>

----------------------------------------------------------------------------
(* Outcome of an awaited call *)

Returned(v) == [kind |-> "value", v |-> v]
ReturnedUndefined == [kind |-> "undefined"]
Thrown == [kind |-> "throw"]

----------------------------------------------------------------------------
(* ProjectService: the synchronous body of each method, after its delay *)

\* byCreatedAtDesc with the operands exchanged: oldest first
byCreatedAtDesc_ascending(a, b) == DateValue(a.createdAt) - DateValue(b.createdAt)

\* [...list].sort((a, b) => new Date(b.createdAt) - new Date(a.createdAt)):
\* the comparator, positive when a belongs after b
byCreatedAtDesc(a, b) == DateValue(b.createdAt) - DateValue(a.createdAt)

\* x put into an already sorted list, behind everything that does not belong after it
insertSorted(sorted, x) ==
    LET after == {k \in 1..Len(sorted) : byCreatedAtDesc(sorted[k], x) > 0}
        at == IF after = {} THEN Len(sorted) + 1
              ELSE CHOOSE k \in after : \A j \in after : k <= j
    IN  SubSeq(sorted, 1, at - 1) \o <<x>> \o SubSeq(sorted, at, Len(sorted))

RECURSIVE sortByCreatedAt(_)
\* Array.prototype.sort with that comparator (a stable sort) on a copy of the list
sortByCreatedAt(list) ==
    IF list = <<>> THEN <<>>
    ELSE CHOOSE out \in {insertSorted(sorted, list[Len(list)]) :
                             sorted \in {sortByCreatedAt(SubSeq(list, 1, Len(list) - 1))}} : TRUE

\* fetchAll() and getContacts(): the resolved value
fetchAll(ps) == Returned(sortByCreatedAt(ps))
getContacts(cs) == Returned(sortByCreatedAt(cs))

\* project.technologies is read with no check that it is there: without the
\* field, `undefined.split` throws a TypeError
saveThrows(project) == ~Has(project, "technologies")

\* Array.isArray(t) ? t : t.split(',').map(tech => tech.trim()).filter(tech => tech)
technologiesOf(project) ==
    IF project.technologies.isArray THEN project.technologies.v
    ELSE trimAndDropEmpty(split(project.technologies.v, ","))

\* const projectData = { ...project, technologies, updatedAt, projectImage, bannerImage }
projectData(project, ms) ==
    [f \in DOMAIN project \cup {"technologies", "updatedAt", "projectImage", "bannerImage"} |->
        CASE f = "technologies" -> technologiesOf(project)
          [] f = "updatedAt" -> toISOString(ms)
          [] f = "projectImage" -> OrNull(project, "projectImage")
          [] f = "bannerImage" -> OrNull(project, "bannerImage")
          [] OTHER -> project[f]]

\* { ...p, ...data }
spread(p, data) == data @@ p

\* this.projects.map(p => p._id === project._id ? { ...p, ...projectData } : p)
updateProject(ps, project, ms) ==
    [i \in 1..Len(ps) |->
        IF ps[i]._id = project._id THEN spread(ps[i], projectData(project, ms)) ELSE ps[i]]

\* { ...projectData, _id: 'p' + Date.now() + random, createdAt: new Date().toISOString() }
newProject(project, ms, suffix) ==
    spread(projectData(project, ms),
           [_id |-> newId("p", ms, suffix), createdAt |-> toISOString(ms)])

\* this.projects after save(project): the update branch for a truthy _id,
\* else unshift(newProject)
saveProjects(ps, project, ms, suffix) ==
    IF HasId(project) THEN updateProject(ps, project, ms)
    ELSE <<newProject(project, ms, suffix)>> \o ps

\* Array.prototype.find: the first element with that _id, or undefined
find(list, id) ==
    LET hits == {i \in 1..Len(list) : list[i]._id = id}
    IN  IF hits = {} THEN ReturnedUndefined
        ELSE Returned(list[CHOOSE i \in hits : \A j \in hits : i <= j])

\* return projectData._id ? this.projects.find(...) : this.projects[0]
saveReturn(after, project) ==
    IF HasId(project) THEN find(after, project._id) ELSE Returned(after[1])

\* deleteById with the test inverted: keeps the records that carry the id
deleteById_keepMatching(list, id) == SelectSeq(list, LAMBDA x : x._id = id)

\* this.projects.filter(p => p._id !== id), also deleteContact's filter
deleteById(list, id) == SelectSeq(list, LAMBDA x : x._id # id)

\* contactData with the spread last: the fields of the input win
contactData_inputWins(data, ms, suffix) ==
    data @@ [_id |-> newId("c", ms, suffix), createdAt |-> toISOString(ms),
             read |-> FALSE, status |-> "new"]

\* { ...data, _id, createdAt, read: false, status: 'new' }
contactData(data, ms, suffix) ==
    spread(data, [_id |-> newId("c", ms, suffix), createdAt |-> toISOString(ms),
                  read |-> FALSE, status |-> "new"])

\* contactReturn that names the time of the record in place of its id
contactReturn_createdAt(record) ==
    Returned([success |-> TRUE,
              message |-> "Thank you for your message! I will get back to you soon.",
              contactId |-> record.createdAt])

\* the value contact() resolves to
contactReturn(record) ==
    Returned([success |-> TRUE,
              message |-> "Thank you for your message! I will get back to you soon.",
              contactId |-> record._id])

\* markAsRead that sets the status and forgets the read flag
markAsRead_statusOnly(cs, contactId) ==
    [i \in 1..Len(cs) |->
        IF cs[i]._id = contactId THEN [status |-> "read"] @@ cs[i] ELSE cs[i]]

\* contacts.map(c => c._id === contactId ? { ...c, read: true, status: 'read' } : c)
\* markAsRead that sets the flag and leaves the status
markAsRead_flagOnly(cs, contactId) ==
    [i \in 1..Len(cs) |->
        IF cs[i]._id = contactId THEN spread(cs[i], [read |-> TRUE]) ELSE cs[i]]

markAsRead(cs, contactId) ==
    [i \in 1..Len(cs) |->
        IF cs[i]._id = contactId THEN spread(cs[i], [read |-> TRUE, status |-> "read"])
        ELSE cs[i]]

\* markAsReplied that also sets the read flag
markAsReplied_alsoRead(cs, contactId) ==
    [i \in 1..Len(cs) |->
        IF cs[i]._id = contactId THEN spread(cs[i], [read |-> TRUE, status |-> "replied"])
        ELSE cs[i]]

\* contacts.map(c => c._id === contactId ? { ...c, status: 'replied' } : c)
markAsReplied(cs, contactId) ==
    [i \in 1..Len(cs) |->
        IF cs[i]._id = contactId THEN spread(cs[i], [status |-> "replied"]) ELSE cs[i]]

\* this.contacts.filter(contact => !contact.read).length
getUnreadCount(cs) == Len(SelectSeq(cs, LAMBDA c : ~c.read))

----------------------------------------------------------------------------
(* localStorage *)

\* JSON.stringify of one record: a File has no own enumerable properties and is
\* written as {}; every other value of the model is text, a flag or a list
stringifyRecord(r) ==
    [f \in DOMAIN r |->
        IF f \in {"projectImage", "bannerImage"} /\ r[f] = File THEN EmptyObject ELSE r[f]]

\* The text of an item.  json says what the text is: the JSON of an "array",
\* of "null", of an "object" or of a "number", text that is "invalid" as JSON,
\* or the "empty" text; v holds the elements of an array.
ItemText(json, v) == [json |-> json, v |-> v]

\* JSON.stringify(this.projects) / JSON.stringify(this.contacts)
stringify(list) == ItemText("array", [i \in 1..Len(list) |-> stringifyRecord(list[i])])

\* setItem that loses the item when the write fails
setItem_removesOnFailure(store, key, list, accepted) ==
    IF accepted THEN [store EXCEPT ![key] = <<stringify(list)>>]
    ELSE [store EXCEPT ![key] = <<>>]

\* localStorage.setItem(key, JSON.stringify(list)) inside try/catch: when
\* setItem throws, the error is logged and the item is left as it was
setItem(store, key, list, accepted) ==
    IF accepted THEN [store EXCEPT ![key] = <<stringify(list)>>] ELSE store

\* a value held in this.projects or this.contacts: what it is, and its elements
Value(what, list) == [shape |-> what, list |-> list]

\* JSON.parse throws a SyntaxError on text that is not JSON
parseThrows(text) == text.json \in {"invalid", "empty"}

\* JSON.parse(text): whatever value the text denotes, an array or not
parse(text) == Value(text.json, text.v)

\* try { const stored = localStorage.getItem(key);
\*       return stored ? JSON.parse(stored) : fallback } catch { return fallback }
\* item is <<>> when getItem gives null; readable is whether getItem returns
parseOrFallback(item, readable, fallback) ==
    IF ~readable THEN Value("array", fallback)
    ELSE IF item = <<>> \/ item[1].json = "empty" THEN Value("array", fallback)
    ELSE IF parseThrows(item[1]) THEN Value("array", fallback)
    ELSE parse(item[1])

----------------------------------------------------------------------------
(* Inputs of the calls *)

ProjectsKey == "portfolio-projects"
ContactsKey == "portfolio-contacts"
Keys == {ProjectsKey, ContactsKey}

Array(list) == [isArray |-> TRUE, v |-> list]
Text(chars) == [isArray |-> FALSE, v |-> chars]

\* what ProjectForm.handleSubmit passes: every form field, technologies already
\* split into an array, the chosen File
FormInput ==
    [title |-> "Shop", description |-> "An online shop",
     technologies |-> Array(<< <<"R", "e", "a", "c", "t">> >>),
     liveUrl |-> "", githubUrl |-> "", projectImage |-> File, bannerImage |-> Null]

\* technologies as one comma-separated text: "Node, ,D3 "
TextInput ==
    [title |-> "Chat",
     technologies |-> Text(<<"N", "o", "d", "e", ",", " ", ",", "D", "3", " ">>)]

\* a single field
TitleOnly == [title |-> "X"]

\* an input that carries createdAt
Redated == [technologies |-> Array(<<>>), createdAt |-> toISOString(1)]

\* inputs without _id, and inputs that get the _id of the record to change
CreateInputs == {FormInput, TextInput, TitleOnly}
UpdateInputs == {FormInput, TitleOnly, Redated}

\* the ids a caller names: of the first and of the last record of the list, of
\* a record that was deleted, of none
IdArgs(list, ever) ==
    {list[i]._id : i \in {1, Len(list)} \cap (1..Len(list))}
        \cup (ever \ {list[i]._id : i \in 1..Len(list)})
        \cup {UnknownId}

withId(input, id) == spread(input, [_id |-> id])

\* what ContactForm.handleSubmit passes, and a direct call with empty texts
\* that also carries read and status
ContactInputs ==
    {[name |-> "Ann", email |-> "ann@example.com", message |-> "Hello, nice work"],
     [name |-> "", email |-> "", message |-> "", read |-> TRUE, status |-> "replied"]}

----------------------------------------------------------------------------
(* State *)

NoCall == [n |-> 0, op |-> "none", arg |-> <<>>, hit |-> 0, ret |-> ReturnedUndefined,
           draw |-> <<>>, due |-> 0]

loadFromStorage(store, readable) ==
    parseOrFallback(store[ProjectsKey], readable, INITIAL_PROJECTS)

loadContactsFromStorage(store, readable) ==
    parseOrFallback(store[ContactsKey], readable, <<>>)

\* how the load of an item went
loadCase(item, readable) ==
    IF ~readable THEN "unreadable"
    ELSE IF item = <<>> THEN "absent"
    ELSE IF item[1].json \in {"empty", "invalid"} THEN item[1].json
    ELSE "parsed"

\* new ProjectService(), with the items `store` in localStorage; readable says
\* for each key whether getItem returns
constructor(store, readable) ==
    LET p == loadFromStorage(store, readable[ProjectsKey])
        c == loadContactsFromStorage(store, readable[ContactsKey])
        held == [k \in Keys |-> IF k = ProjectsKey THEN p ELSE c]
    IN  /\ projects = p.list
        /\ contacts = c.list
        /\ shape = [k \in Keys |-> held[k].shape]
        /\ stored = store
        /\ issued = [all |-> 0, projects |-> 0]
        /\ faults = 0
        /\ res = NoCall
        /\ hist = [k \in Keys |->
                    [ever |-> {held[k].list[i]._id : i \in 1..Len(held[k].list)},
                     draws |-> {}, redraw |-> FALSE, reused |-> FALSE, write |-> "none",
                     load |-> loadCase(store[k], readable[k])]]

NoPolls == [activations |-> 0, evaluations |-> 0, notifications |-> 0, requests |-> 0]

\* no change of the search box yet.  changes counts all changes of the box;
\* typed, typedAt, fired and emitted are about the current burst, the changes
\* made since the debounce timer last fired: their number, the time of the
\* last one, the timer callbacks run and the changes of the debounced value;
\* held is every value the box has held.
NoTyping == [changes |-> 0, typed |-> 0, typedAt |-> 0, fired |-> 0, emitted |-> 0,
             held |-> {<<>>}]

\* the page before anything is mounted: no admin view, an empty search box
pageAtStart ==
    /\ mounted = FALSE
    /\ unreadCount = 0
    /\ polled = NoPolls
    /\ searchTerm = <<>>
    /\ debouncedSearchTerm = <<>>
    /\ settled = NoTyping

\* the facet that selects every project: useState('All')
All == <<"A", "l", "l">>

\* no list loaded into a view yet, the filters as useState leaves them
noViews ==
    /\ listed = <<>>
    /\ selectedTechnology = All
    /\ listMounted = FALSE
    /\ contactsShown = <<>>
    /\ filter = "all"

\* the first visit: no item under either key, so loadFromStorage() gives a copy
\* of INITIAL_PROJECTS and loadContactsFromStorage() gives []
Init ==
    /\ constructor([k \in Keys |-> <<>>], [k \in Keys |-> TRUE])
    /\ now = Clock0
    /\ timers = <<>>
    /\ permission = "default"
    /\ hidden = FALSE
    /\ pageAtStart
    /\ noViews

----------------------------------------------------------------------------
(* Timers *)

\* setTimeout: the timer that fires next is the one due first, and among
\* timers due together the one registered first
\* timers fired in the order they were registered, whatever their delays
NextTimer_firstRegistered == CHOOSE k \in 1..Len(timers) : \A j \in 1..Len(timers) : k <= j

NextTimer ==
    CHOOSE k \in 1..Len(timers) :
        \A j \in 1..Len(timers) :
            \/ timers[k].due < timers[j].due
            \/ timers[k].due = timers[j].due /\ k <= j

SomeTimerDue == \E k \in 1..Len(timers) : timers[k].due <= now

Fires(op) ==
    /\ timers # <<>>
    /\ timers[NextTimer].due <= now
    /\ timers[NextTimer].op = op

withoutTimer(k) == SubSeq(timers, 1, k - 1) \o SubSeq(timers, k + 1, Len(timers))

ProjectMethods == {"fetchAll", "save", "delete"}

\* the count of calls with one more call of the method
withCall(op) ==
    [all |-> issued.all + 1,
     projects |-> issued.projects + (IF op \in ProjectMethods THEN 1 ELSE 0)]

\* the timers of suspended calls: all but the poll interval and the debounce timer
suspended == SelectSeq(timers, LAMBDA t : t.op \notin {"poll", "debounce"})

\* async delay(ms): the caller is suspended until a timer of ms milliseconds fires
delay(op, arg, ms) ==
    /\ withCall(op).all <= MaxCalls
    /\ withCall(op).projects <= MaxProjectCalls
    /\ withCall(op).projects \in 1..(withCall(op).all - 1) => withCall(op).all <= MaxMixedCalls
    /\ Len(suspended) < MaxPending
    /\ timers' = Append(timers, [op |-> op, arg |-> arg, due |-> now + ms])
    /\ issued' = withCall(op)
    /\ UNCHANGED <<projects, contacts, shape, stored, now, faults, res, hist>>
    /\ UNCHANGED <<poller, search, views>>

\* Time passes while calls are suspended, up to the moment the next timer falls
\* due; the timer fires at that clock reading.  Calls are made at the readings
\* at which a call is made or completes.  No method reads the clock before its
\* timer fires, so the time that passes while nothing is suspended is left out.
Elapse ==
    /\ timers # <<>>
    /\ ~SomeTimerDue
    /\ now' = timers[NextTimer].due
    /\ UNCHANGED <<service, timers, poller, search, views>>

----------------------------------------------------------------------------
(* Calls: each method up to its `await this.delay(...)` *)

CallFetchAll == delay("fetchAll", <<>>, FETCH)

CallSave ==
    \/ \E input \in CreateInputs : delay("save", input, SAVE)
    \/ \E input \in UpdateInputs, id \in IdArgs(projects, hist[ProjectsKey].ever) :
          delay("save", withId(input, id), SAVE)

CallDelete ==
    \E id \in IdArgs(projects, hist[ProjectsKey].ever) : delay("delete", id, DELETE)

CallContact == \E data \in ContactInputs : delay("contact", data, CONTACT)

CallGetContacts == delay("getContacts", <<>>, FETCH)

CallMarkAsRead ==
    \E id \in IdArgs(contacts, hist[ContactsKey].ever) : delay("markAsRead", id, MARK_READ)

CallMarkAsReplied ==
    \E id \in IdArgs(contacts, hist[ContactsKey].ever) :
        delay("markAsReplied", id, MARK_REPLIED)

CallDeleteContact ==
    \E id \in IdArgs(contacts, hist[ContactsKey].ever) :
        delay("deleteContact", id, DELETE)

----------------------------------------------------------------------------
(* Completions: the body of each method, run when its timer fires *)

\* how many records of the list carry the id
matches(list, id) == Cardinality({i \in 1..Len(list) : list[i]._id = id})

\* the record of the completed call; due is the clock reading its timer was set for
completed(c, hit, ret, draw) ==
    [n |-> res.n + 1, op |-> c.op, arg |-> c.arg, hit |-> hit, ret |-> ret, draw |-> draw,
     due |-> c.due]

\* whether localStorage.setItem succeeds is up to the browser (quota, privacy mode)
WriteOutcomes == IF faults < MaxFaults THEN BOOLEAN ELSE {TRUE}

\* history of a collection after a write of `list`; draw is the <<clock, suffix>>
\* pair of an id generated in the step, or <<>>
recorded(key, list, draw, accepted) ==
    [hist EXCEPT ![key] =
        [ever |-> @.ever \cup {list[i]._id : i \in 1..Len(list)},
         draws |-> IF draw = <<>> THEN @.draws ELSE @.draws \cup {draw},
         redraw |-> @.redraw \/ (draw # <<>> /\ draw \in @.draws),
         reused |-> @.reused \/ (draw # <<>> /\ list[1]._id \in @.ever),
         write |-> IF accepted THEN "ok" ELSE "failed",
         load |-> @.load]]

\* saveToStorage()
saveToStorage(list, draw, accepted) ==
    /\ stored' = setItem(stored, ProjectsKey, list, accepted)
    /\ faults' = IF accepted THEN faults ELSE faults + 1
    /\ hist' = recorded(ProjectsKey, list, draw, accepted)

\* saveContactsToStorage called before the collection is replaced: it writes
\* the list as it was
saveContactsToStorage_beforeMutation(list, draw, accepted) ==
    /\ stored' = setItem(stored, ContactsKey, contacts, accepted)
    /\ faults' = IF accepted THEN faults ELSE faults + 1
    /\ hist' = recorded(ContactsKey, list, draw, accepted)

\* saveContactsToStorage()
saveContactsToStorage(list, draw, accepted) ==
    /\ stored' = setItem(stored, ContactsKey, list, accepted)
    /\ faults' = IF accepted THEN faults ELSE faults + 1
    /\ hist' = recorded(ContactsKey, list, draw, accepted)

\* [...x] and x.map, x.filter, x.unshift throw a TypeError when x is null, a
\* number or a plain object
notArray(key) == shape[key] # "array"

\* the call whose timer fires rejects, and nothing is changed
Rejects ==
    /\ res' = completed(timers[NextTimer], 0, Thrown, <<>>)
    /\ timers' = withoutTimer(NextTimer)
    /\ UNCHANGED <<projects, contacts, stored, faults, hist>>

FetchAll ==
    /\ Fires("fetchAll")
    /\ IF notArray(ProjectsKey) THEN Rejects
       ELSE LET k == NextTimer IN
              /\ res' = completed(timers[k], 0, fetchAll(projects), <<>>)
              /\ timers' = withoutTimer(k)
              /\ UNCHANGED <<projects, contacts, stored, faults, hist>>
    /\ UNCHANGED <<shape, now, issued, poller, search, views>>

Save ==
    /\ Fires("save")
    /\ LET k == NextTimer
           project == timers[k].arg
           hit == IF HasId(project) THEN matches(projects, project._id) ELSE 0
       IN  /\ timers' = withoutTimer(k)
           /\ IF saveThrows(project) \/ notArray(ProjectsKey)
              THEN /\ res' = completed(timers[k], hit, Thrown, <<>>)
                   /\ UNCHANGED <<projects, stored, faults, hist>>
              ELSE \E suffix \in (IF HasId(project) THEN {<<>>} ELSE Suffixes),
                      accepted \in WriteOutcomes :
                     LET after == saveProjects(projects, project, now, suffix)
                         draw == IF HasId(project) THEN <<>> ELSE <<now, suffix>>
                     IN  /\ projects' = after
                         /\ saveToStorage(after, draw, accepted)
                         /\ res' = completed(timers[k], hit, saveReturn(after, project),
                                             draw)
    /\ UNCHANGED <<contacts, shape, now, issued, poller, search, views>>

Delete ==
    /\ Fires("delete")
    /\ IF notArray(ProjectsKey) THEN Rejects
       ELSE \E accepted \in WriteOutcomes :
              LET k == NextTimer
                  id == timers[k].arg
                  after == deleteById(projects, id)
              IN  /\ projects' = after
                  /\ saveToStorage(after, <<>>, accepted)
                  /\ res' = completed(timers[k], matches(projects, id), ReturnedUndefined, <<>>)
                  /\ timers' = withoutTimer(k)
                  /\ UNCHANGED contacts
    /\ UNCHANGED <<shape, now, issued, poller, search, views>>

\* contact() that builds on the stored document, not on this.contacts
Contact_fromDocument ==
    /\ Fires("contact")
    /\ IF notArray(ContactsKey) THEN Rejects
       ELSE \E suffix \in Suffixes, accepted \in WriteOutcomes :
              LET k == NextTimer
                  record == contactData(timers[k].arg, now, suffix)
                  after == <<record>> \o loadContactsFromStorage(stored, TRUE).list
              IN  /\ contacts' = after
                  /\ saveContactsToStorage(after, <<now, suffix>>, accepted)
                  /\ res' = completed(timers[k], 0, contactReturn(record), <<now, suffix>>)
                  /\ timers' = withoutTimer(k)
                  /\ UNCHANGED projects
    /\ UNCHANGED <<shape, now, issued, poller, search, views>>

Contact ==
    /\ Fires("contact")
    /\ IF notArray(ContactsKey) THEN Rejects
       ELSE \E suffix \in Suffixes, accepted \in WriteOutcomes :
              LET k == NextTimer
                  record == contactData(timers[k].arg, now, suffix)
                  after == <<record>> \o contacts
              IN  /\ contacts' = after
                  /\ saveContactsToStorage(after, <<now, suffix>>, accepted)
                  /\ res' = completed(timers[k], 0, contactReturn(record), <<now, suffix>>)
                  /\ timers' = withoutTimer(k)
                  /\ UNCHANGED projects
    /\ UNCHANGED <<shape, now, issued, poller, search, views>>

\* getContacts answered from the item in localStorage, not from this.contacts
GetContacts_fromStorage ==
    /\ Fires("getContacts")
    /\ res' = completed(timers[NextTimer], 0,
                        getContacts(loadContactsFromStorage(stored, TRUE).list), <<>>)
    /\ timers' = withoutTimer(NextTimer)
    /\ UNCHANGED <<projects, contacts, stored, faults, hist>>
    /\ UNCHANGED <<shape, now, issued, poller, search, views>>

GetContacts ==
    /\ Fires("getContacts")
    /\ IF notArray(ContactsKey) THEN Rejects
       ELSE LET k == NextTimer IN
              /\ res' = completed(timers[k], 0, getContacts(contacts), <<>>)
              /\ timers' = withoutTimer(k)
              /\ UNCHANGED <<projects, contacts, stored, faults, hist>>
    /\ UNCHANGED <<shape, now, issued, poller, search, views>>

MarkAsRead ==
    /\ Fires("markAsRead")
    /\ IF notArray(ContactsKey) THEN Rejects
       ELSE \E accepted \in WriteOutcomes :
              LET k == NextTimer
                  id == timers[k].arg
                  after == markAsRead(contacts, id)
              IN  /\ contacts' = after
                  /\ saveContactsToStorage(after, <<>>, accepted)
                  /\ res' = completed(timers[k], matches(contacts, id), Returned(TRUE), <<>>)
                  /\ timers' = withoutTimer(k)
                  /\ UNCHANGED projects
    /\ UNCHANGED <<shape, now, issued, poller, search, views>>

MarkAsReplied ==
    /\ Fires("markAsReplied")
    /\ IF notArray(ContactsKey) THEN Rejects
       ELSE \E accepted \in WriteOutcomes :
              LET k == NextTimer
                  id == timers[k].arg
                  after == markAsReplied(contacts, id)
              IN  /\ contacts' = after
                  /\ saveContactsToStorage(after, <<>>, accepted)
                  /\ res' = completed(timers[k], matches(contacts, id), Returned(TRUE), <<>>)
                  /\ timers' = withoutTimer(k)
                  /\ UNCHANGED projects
    /\ UNCHANGED <<shape, now, issued, poller, search, views>>

DeleteContact ==
    /\ Fires("deleteContact")
    /\ IF notArray(ContactsKey) THEN Rejects
       ELSE \E accepted \in WriteOutcomes :
              LET k == NextTimer
                  id == timers[k].arg
                  after == deleteById(contacts, id)
              IN  /\ contacts' = after
                  /\ saveContactsToStorage(after, <<>>, accepted)
                  /\ res' = completed(timers[k], matches(contacts, id), Returned(TRUE), <<>>)
                  /\ timers' = withoutTimer(k)
                  /\ UNCHANGED projects
    /\ UNCHANGED <<shape, now, issued, poller, search, views>>

----------------------------------------------------------------------------
(* Specification *)

Next ==
    \/ Elapse
    \/ CallFetchAll
    \/ CallSave
    \/ CallDelete
    \/ CallContact
    \/ CallGetContacts
    \/ CallMarkAsRead
    \/ CallMarkAsReplied
    \/ CallDeleteContact
    \/ FetchAll
    \/ Save
    \/ Delete
    \/ Contact
    \/ GetContacts
    \/ MarkAsRead
    \/ MarkAsReplied
    \/ DeleteContact

Spec == Init /\ [][Next]_vars

\* a step of the timers: time passes up to the next timer, or the timer that
\* is due fires and the suspended method runs to its end
TimerStep ==
    \/ Elapse
    \/ FetchAll \/ Save \/ Delete
    \/ Contact \/ GetContacts \/ MarkAsRead \/ MarkAsReplied \/ DeleteContact

\* setTimeout: a timer that was set is not left waiting for ever
TimersFire == WF_vars(TimerStep)

FairSpec == Spec /\ TimersFire

----------------------------------------------------------------------------
(* A later visit: the constructor finds what is in localStorage *)

\* text under a key that is not the JSON of an array
ForeignTexts == {ItemText(json, <<>>) : json \in {"empty", "invalid", "null", "object", "number"}}

\* the documents an earlier session wrote: a project created from the form in
\* front of the seed projects, one contact
EarlierDocuments ==
    [k \in Keys |->
        IF k = ProjectsKey
        THEN stringify(<<newProject(FormInput, Clock0 - 100, <<"a">>)>> \o INITIAL_PROJECTS)
        ELSE stringify(<<contactData(CHOOSE data \in ContactInputs : data.name # "",
                                     Clock0 - 100, <<"a">>)>>)]

\* what getItem can find under the key
Items(key) == {<<>>, <<EarlierDocuments[key]>>} \cup {<<text>> : text \in ForeignTexts}

\* one of the two keys holds some item, or cannot be read; the other has no item
InitLoad ==
    /\ \E key \in Keys, canRead \in BOOLEAN : \E item \in Items(key) :
          constructor([k \in Keys |-> IF k = key THEN item ELSE <<>>],
                      [k \in Keys |-> k # key \/ canRead])
    /\ now = Clock0
    /\ timers = <<>>
    /\ permission = "default"
    /\ hidden = FALSE
    /\ pageAtStart
    /\ noViews

SpecLoad == InitLoad /\ [][Next]_vars

----------------------------------------------------------------------------
(* useContactNotifications, owned by ProjectAdmin *)

\* notifies without the test of document.hidden
notifies_whileVisible(count) == count > 0 /\ permission = "granted"

\* if (count > 0 && document.hidden) { if (Notification.permission === 'granted') ... }
notifies(count) == count > 0 /\ hidden /\ permission = "granted"

\* checkForNewMessages() that notifies only when the count has changed
checkForNewMessages_onChange(p) ==
    LET count == getUnreadCount(contacts)
    IN  [state |-> count,
         polled |-> [p EXCEPT !.evaluations = @ + 1,
                              !.notifications =
                                  @ + (IF notifies(count) /\ count # unreadCount
                                       THEN 1 ELSE 0)]]

\* checkForNewMessages() without setUnreadCount(count)
checkForNewMessages_noSet(p) ==
    LET count == getUnreadCount(contacts)
    IN  [state |-> unreadCount,
         polled |-> [p EXCEPT !.evaluations = @ + 1,
                              !.notifications = @ + (IF notifies(count) THEN 1 ELSE 0)]]

\* checkForNewMessages(): the count is read and set, and a notification is
\* shown or not; p is the history before
checkForNewMessages(p) ==
    LET count == getUnreadCount(contacts)
    IN  [state |-> count,
         polled |-> [p EXCEPT !.evaluations = @ + 1,
                              !.notifications = @ + (IF notifies(count) THEN 1 ELSE 0)]]

\* if ('Notification' in window && Notification.permission === 'default')
\*     Notification.requestPermission()
requestPermission(p) ==
    IF permission = "default" THEN [p EXCEPT !.requests = @ + 1] ELSE p

pollTimers == SelectSeq(timers, LAMBDA t : t.op = "poll")

\* the effect of useContactNotifications, run when ProjectAdmin is mounted
Mount ==
    /\ ~mounted
    /\ polled.evaluations < MaxEvaluations
    /\ mounted' = TRUE
    /\ LET check == checkForNewMessages([polled EXCEPT !.activations = @ + 1])
       IN  /\ unreadCount' = check.state
           /\ polled' = requestPermission(check.polled)
    /\ timers' = Append(timers, [op |-> "poll", arg |-> <<>>, due |-> now + POLL_INTERVAL])
    /\ UNCHANGED <<service, now, permission, hidden, search, views>>

\* the interval fires: checkForNewMessages(), and the timer is due again one
\* interval later
PollTick ==
    /\ Fires("poll")
    /\ polled.evaluations < MaxEvaluations
    /\ LET check == checkForNewMessages(polled)
       IN  /\ unreadCount' = check.state
           /\ polled' = check.polled
    /\ timers' = Append(withoutTimer(NextTimer),
                        [timers[NextTimer] EXCEPT !.due = @ + POLL_INTERVAL])
    /\ UNCHANGED <<service, now, permission, hidden, mounted, search, views>>

\* the cleanup without clearInterval
Unmount_keepsInterval ==
    /\ mounted
    /\ mounted' = FALSE
    /\ UNCHANGED <<service, now, timers, permission, hidden, unreadCount, polled, search, views>>

\* ProjectAdmin is unmounted: the cleanup of the effect, clearInterval(interval)
Unmount ==
    /\ mounted
    /\ mounted' = FALSE
    /\ timers' = SelectSeq(timers, LAMBDA t : t.op # "poll")
    /\ UNCHANGED <<service, now, permission, hidden, unreadCount, polled, search, views>>

\* visibilitychange: the tab goes to the background or comes back
VisibilityChange ==
    /\ hidden' = ~hidden
    /\ UNCHANGED <<service, now, timers, permission, mounted, unreadCount, polled, search, views>>

\* the user answers the permission prompt
PermissionChange ==
    /\ permission = "default"
    /\ polled.requests > 0
    /\ \E answer \in {"granted", "denied"} : permission' = answer
    /\ UNCHANGED <<service, now, timers, hidden, mounted, unreadCount, polled, search, views>>

\* the first visit, or a later one that finds the contact of an earlier session
InitPoll ==
    /\ \E item \in {<<>>, <<EarlierDocuments[ContactsKey]>>} :
          constructor([k \in Keys |-> IF k = ContactsKey THEN item ELSE <<>>],
                      [k \in Keys |-> TRUE])
    /\ now = Clock0
    /\ timers = <<>>
    /\ permission \in {"default", "granted", "denied"}
    /\ hidden = FALSE
    /\ pageAtStart
    /\ noViews

\* the contact form is submitted on the contact page, shown in place of the
\* admin view; a contact is opened in the admin view
PolledCallContact ==
    /\ issued.all < MaxPolledCalls
    /\ ~mounted
    /\ \E data \in ContactInputs : data.name # "" /\ delay("contact", data, CONTACT)
PolledCallMarkAsRead ==
    /\ issued.all < MaxPolledCalls
    /\ mounted
    /\ \E i \in 1..Len(contacts) : delay("markAsRead", contacts[i]._id, MARK_READ)

NextPoll ==
    \/ Elapse
    \/ PolledCallContact
    \/ Contact
    \/ PolledCallMarkAsRead
    \/ MarkAsRead
    \/ Mount
    \/ PollTick
    \/ Unmount
    \/ VisibilityChange
    \/ PermissionChange

SpecPoll == InitPoll /\ [][NextPoll]_vars

\* setTimeout and setInterval callbacks are run when they are due
PollTimersFire == WF_vars(TimerStep \/ PollTick)
FairSpecPoll == SpecPoll /\ PollTimersFire

----------------------------------------------------------------------------
(* useDebounce(searchTerm, 300), owned by ProjectList *)

\* what the search box can hold: "", "a", "ab"
Terms == {<<>>, <<"a">>, <<"a", "b">>}

\* setTimeout(() => setDebouncedValue(value), delay)
debounceTimer(value) == [op |-> "debounce", arg |-> value, due |-> now + DEBOUNCE]

\* the effect run again without its cleanup: the earlier timer stays
restartTimer_noClear(value) == Append(timers, debounceTimer(value))

\* value changed: the cleanup of the effect, clearTimeout(handler), then the
\* effect again
restartTimer(value) ==
    Append(SelectSeq(timers, LAMBDA t : t.op # "debounce"), debounceTimer(value))

\* onChange of the search box: setSearchTerm(value) with another value, and
\* the effect of useDebounce runs for it
setSearchTerm(value) ==
    /\ listMounted
    /\ settled.changes < MaxChanges
    /\ searchTerm' = value
    /\ timers' = restartTimer(value)
    /\ settled' = [settled EXCEPT
                      !.changes = @ + 1,
                      !.held = @ \cup {value},
                      !.typed = IF settled.fired > 0 THEN 1 ELSE @ + 1,
                      !.typedAt = now,
                      !.fired = 0,
                      !.emitted = IF settled.fired > 0 THEN 0 ELSE @]
    /\ UNCHANGED <<service, now, poller, views, debouncedSearchTerm>>

ChangeSearchTerm == \E value \in Terms \ {searchTerm} : setSearchTerm(value)

\* the timer of useDebounce fires: setDebouncedValue(value)
DebounceFires ==
    /\ Fires("debounce")
    /\ debouncedSearchTerm' = timers[NextTimer].arg
    /\ timers' = withoutTimer(NextTimer)
    /\ settled' = [settled EXCEPT
                      !.fired = @ + 1,
                      !.emitted = @ + (IF timers[NextTimer].arg # debouncedSearchTerm
                                       THEN 1 ELSE 0)]
    /\ UNCHANGED <<service, now, poller, views, searchTerm>>

\* the cleanup that leaves the timer running
UnmountList_keepsTimer ==
    /\ listMounted
    /\ listMounted' = FALSE
    /\ UNCHANGED <<service, now, timers, poller, search, listed, selectedTechnology,
                   contactsShown, filter>>

\* ProjectList is unmounted (the visitor leaves the page): the cleanup of the
\* effect of useDebounce, clearTimeout(handler)
UnmountList ==
    /\ listMounted
    /\ listMounted' = FALSE
    /\ timers' = SelectSeq(timers, LAMBDA t : t.op # "debounce")
    /\ UNCHANGED <<service, now, poller, search, listed, selectedTechnology,
                   contactsShown, filter>>

\* a short time passes, no timer falling due in it
Wait ==
    /\ timers # <<>>
    /\ now + Pause <= timers[NextTimer].due
    /\ now' = now + Pause
    /\ UNCHANGED <<service, timers, poller, search, views>>

\* ProjectList is mounted with an empty search box: the effect of useDebounce
\* has set its first timer
InitDebounce ==
    /\ constructor([k \in Keys |-> <<>>], [k \in Keys |-> TRUE])
    /\ now = Clock0
    /\ timers = <<debounceTimer(<<>>)>>
    /\ permission = "default"
    /\ hidden = FALSE
    /\ pageAtStart
    /\ listed = <<>>
    /\ selectedTechnology = All
    /\ listMounted = TRUE
    /\ contactsShown = <<>>
    /\ filter = "all"

NextDebounce ==
    \/ ChangeSearchTerm
    \/ DebounceFires
    \/ UnmountList
    \/ Wait
    \/ Elapse

SpecDebounce == InitDebounce /\ [][NextDebounce]_vars

\* the setTimeout callback is run when it is due
DebounceTimerFires == WF_vars(Elapse \/ DebounceFires)
FairSpecDebounce == SpecDebounce /\ DebounceTimerFires

----------------------------------------------------------------------------
(* Calls of the project methods made a short time apart *)

\* a later visit, with the project document of the earlier session; the admin
\* saves and deletes projects, a Pause or more apart
InitOrder ==
    /\ constructor([k \in Keys |-> IF k = ProjectsKey THEN <<EarlierDocuments[k]>> ELSE <<>>],
                   [k \in Keys |-> TRUE])
    /\ now = Clock0
    /\ timers = <<>>
    /\ permission = "default"
    /\ hidden = FALSE
    /\ pageAtStart
    /\ noViews

\* the admin saves an edited project, or deletes one
OrderedCallSave ==
    /\ issued.all < MaxOrderedCalls
    /\ \E input \in UpdateInputs, id \in IdArgs(projects, hist[ProjectsKey].ever) :
          delay("save", withId(input, id), SAVE)
OrderedCallDelete ==
    /\ issued.all < MaxOrderedCalls
    /\ CallDelete

NextOrder ==
    \/ OrderedCallSave
    \/ OrderedCallDelete
    \/ Wait
    \/ Elapse
    \/ Save
    \/ Delete

SpecOrder == InitOrder /\ [][NextOrder]_vars

----------------------------------------------------------------------------
(* ProjectList: the facet buttons and the search box over the loaded list *)

\* lists fetched into the view hold at most this many projects
MaxListed == 2

\* the lower-case letter of each capital the texts of the model use
LowerOf ==
    [c \in {"A", "B", "C", "E", "N", "O", "R", "S"} |->
        CASE c = "A" -> "a" [] c = "B" -> "b" [] c = "C" -> "c" [] c = "E" -> "e"
          [] c = "N" -> "n" [] c = "O" -> "o" [] c = "R" -> "r" [] c = "S" -> "s"]

\* String.prototype.toLowerCase
toLowerCase(text) ==
    [i \in 1..Len(text) |-> IF text[i] \in DOMAIN LowerOf THEN LowerOf[text[i]] ELSE text[i]]

\* String.prototype.includes: the piece occurs somewhere in the text
includes(text, piece) ==
    \E k \in 0..(Len(text) - Len(piece)) : SubSeq(text, k + 1, k + Len(piece)) = piece

\* Array.prototype.includes: some element is the item
arrayIncludes(array, item) == \E i \in 1..Len(array) : array[i] = item

\* projects as fetchAll resolves them, with the fields the filter reads:
\* Shop / React and Chat / Node, and one stored without technologies
Shop == [_id |-> <<"p", "1">>, title |-> <<"S", "h", "o", "p">>,
         description |-> <<"S", "t", "o", "r", "e">>,
         technologies |-> << <<"R", "e", "a", "c", "t">> >>]
Chat == [_id |-> <<"p", "2">>, title |-> <<"C", "h", "a", "t">>,
         description |-> <<"T", "a", "l", "k">>,
         technologies |-> << <<"N", "o", "d", "e">>, <<"R", "e", "d", "i", "s">> >>]
Blog == [_id |-> <<"p", "3">>, title |-> <<"B", "l", "o", "g">>,
         description |-> <<"O", "n", " ", "R", "e", "a", "c", "t">>]

Listable == {Shop, Chat, Blog}

RECURSIVE ListsOf(_, _)
\* the lists of at most n elements of the set
ListsOf(set, n) ==
    IF n = 0 THEN {<<>>}
    ELSE LET shorter == ListsOf(set, n - 1)
         IN  shorter \cup {Append(l, x) : l \in shorter, x \in set}

\* what is typed into the search box of the list
SearchTerms ==
    {<<>>, <<"c", "h", "a", "t">>, <<"R", "E">>, <<"o">>, <<"r", "e", "a", "c", "t">>}

\* p.technologies || []
technologiesOrNone(p) == IF Has(p, "technologies") THEN p.technologies ELSE <<>>

\* uniqueTechnologies, the facet buttons: 'All' and every technology of the
\* list (the buttons are sorted; their order plays no part here)
uniqueTechnologies(list) ==
    {All} \cup UNION {{technologiesOrNone(list[i])[j] :
                          j \in 1..Len(technologiesOrNone(list[i]))} : i \in 1..Len(list)}

\* the search callback that looks at the title only
matchesTerm_titleOnly(p, term) == includes(toLowerCase(p.title), term)

\* the callback of the search filter, term already in lower case
matchesTerm(p, term) ==
    \/ includes(toLowerCase(p.title), term)
    \/ includes(toLowerCase(p.description), term)
    \/ /\ Has(p, "technologies")
       /\ \E j \in 1..Len(p.technologies) : includes(toLowerCase(p.technologies[j]), term)

\* filteredProjects, the useMemo over [projects, selectedTechnology,
\* debouncedSearchTerm]: the facet filter, then the search filter on its result
filteredProjects(list, facet, debounced) ==
    LET byFacet == IF facet # All
                   THEN SelectSeq(list, LAMBDA p : /\ Has(p, "technologies")
                                                   /\ arrayIncludes(p.technologies, facet))
                   ELSE list
    IN  IF debounced # <<>>
        THEN SelectSeq(byFacet, LAMBDA p : matchesTerm(p, toLowerCase(debounced)))
        ELSE byFacet

\* handleFilterClick(tech): a facet button is pressed
handleFilterClick ==
    /\ \E tech \in uniqueTechnologies(listed) \ {selectedTechnology} :
          selectedTechnology' = tech
    /\ UNCHANGED <<service, now, timers, poller, search, listed, listMounted,
                   contactsShown, filter>>

\* onChange of the search box of the list
Search == \E value \in SearchTerms \ {searchTerm} : setSearchTerm(value)

\* ProjectList with a list loaded, facet 'All', an empty search box
InitFilter ==
    /\ constructor([k \in Keys |-> <<>>], [k \in Keys |-> TRUE])
    /\ now = Clock0
    /\ timers = <<>>
    /\ permission = "default"
    /\ hidden = FALSE
    /\ pageAtStart
    /\ listed \in ListsOf(Listable, MaxListed)
    /\ selectedTechnology = All
    /\ listMounted = TRUE
    /\ contactsShown = <<>>
    /\ filter = "all"

NextFilter ==
    \/ handleFilterClick
    \/ Search
    \/ DebounceFires
    \/ Elapse

SpecFilter == InitFilter /\ [][NextFilter]_vars

----------------------------------------------------------------------------
(* Vocabulary of the properties *)

\* the step completes a call of the method
Completes(op) == res'.n = res.n + 1 /\ res'.op = op

distinctIds(list) == \A i, j \in 1..Len(list) : list[i]._id = list[j]._id => i = j

collection(key) == IF key = ProjectsKey THEN projects ELSE contacts

\* how many unread contacts carry the id
unreadWithId(cs, id) == Cardinality({i \in 1..Len(cs) : cs[i]._id = id /\ ~cs[i].read})

occurrences(list, x) == Cardinality({i \in 1..Len(list) : list[i] = x})

\* the same records, each as often, in any order
sameRecords(a, b) ==
    /\ Len(a) = Len(b)
    /\ \A x \in Range(a) \cup Range(b) : occurrences(a, x) = occurrences(b, x)

newestFirst(list) ==
    \A i, j \in 1..Len(list) :
        i < j => DateValue(list[i].createdAt) >= DateValue(list[j].createdAt)

----------------------------------------------------------------------------
(* Contact status *)

\* C1: a contact whose status is 'replied' keeps that status through every
\* step in which it is not deleted: no operation moves it back to 'new' or 'read'.
C1_RepliedIsFinal ==
    [][\A i \in 1..Len(contacts) : \A j \in 1..Len(contacts') :
          (contacts[i].status = "replied" /\ contacts'[j]._id = contacts[i]._id)
              => contacts'[j].status = "replied"]_vars

----------------------------------------------------------------------------
(* save: update *)

\* C2: a save whose input carries the _id of an existing project completes
\* without error; every field of the record that the input does not carry is
\* afterwards as it was (present with the same value, or still absent), every
\* field the input carries has the supplied value (technologies as the list it
\* denotes), and updatedAt is set and later than it was.
C2_UpdateMerge ==
    [][(Completes("save") /\ HasId(res'.arg) /\ res'.hit > 0) =>
          /\ res'.ret.kind # "throw"
          /\ Len(projects') = Len(projects)
          /\ \A i \in 1..Len(projects) :
                projects[i]._id = res'.arg._id =>
                    LET old == projects[i]
                        new == projects'[i]
                        input == res'.arg
                    IN  /\ \A f \in (DOMAIN old \cup DOMAIN new) \ (DOMAIN input \cup {"updatedAt"}) :
                              Has(old, f) /\ Has(new, f) /\ new[f] = old[f]
                        /\ \A f \in DOMAIN input \ {"technologies"} :
                              Has(new, f) /\ new[f] = input[f]
                        /\ Has(input, "technologies") =>
                              new.technologies = technologiesOf(input)
                        /\ Has(new, "updatedAt")
                        /\ Has(old, "updatedAt") =>
                              DateValue(new.updatedAt) > DateValue(old.updatedAt)]_vars

----------------------------------------------------------------------------
(* Record identity *)

\* C3 as stated: in every reachable state no two records of a collection share
\* an id, and no create has produced an id that was ever in its collection.
C3_IdsUnique ==
    \A key \in Keys : distinctIds(collection(key)) /\ ~hist[key].reused

\* C3 as amended: two records of a collection share an id, or a create
\* produces an id its collection ever held, only after two creates of that
\* collection drew the same pair of clock reading and random suffix.
C3_IdsUniqueUnlessRedrawn ==
    \A key \in Keys :
        (~distinctIds(collection(key)) \/ hist[key].reused) => hist[key].redraw

\* two creates of one clock reading drew different suffixes and got different ids
C3_Witness ==
    /\ ~hist[ContactsKey].redraw
    /\ \E i, j \in 1..Len(contacts) :
          /\ i # j
          /\ contacts[i].createdAt = contacts[j].createdAt
          /\ contacts[i]._id # contacts[j]._id

----------------------------------------------------------------------------
(* Unread count *)

\* C4 as stated: submitting a contact raises getUnreadCount() by one, marking
\* an unread contact read and deleting an unread contact lower it by one, and
\* markAsReplied leaves it as it is.
C4_UnreadCountByOne ==
    [][/\ Completes("contact") =>
              getUnreadCount(contacts') = getUnreadCount(contacts) + 1
       /\ (Completes("markAsRead") /\ unreadWithId(contacts, res'.arg) > 0) =>
              getUnreadCount(contacts') = getUnreadCount(contacts) - 1
       /\ (Completes("deleteContact") /\ unreadWithId(contacts, res'.arg) > 0) =>
              getUnreadCount(contacts') = getUnreadCount(contacts) - 1
       /\ Completes("markAsReplied") =>
              getUnreadCount(contacts') = getUnreadCount(contacts)]_vars

\* C4 as amended: submitting a contact raises getUnreadCount() by one; marking
\* read and deleting lower it by the number of unread contacts that carry the
\* id (one when a single contact carries it, none when no unread contact
\* does); no other step changes it.
C4_UnreadCountByMatches ==
    [][getUnreadCount(contacts') =
          IF Completes("contact") THEN getUnreadCount(contacts) + 1
          ELSE IF Completes("markAsRead") \/ Completes("deleteContact")
               THEN getUnreadCount(contacts) - unreadWithId(contacts, res'.arg)
          ELSE getUnreadCount(contacts)]_vars

\* markAsRead has marked one of two unread contacts
C4_Witness ==
    /\ res.op = "markAsRead"
    /\ res.hit = 1
    /\ Len(contacts) = 2
    /\ getUnreadCount(contacts) = 1

----------------------------------------------------------------------------
(* Contact lifecycle *)

\* C5: the contact that contact() puts at the front has read = false and
\* status = 'new', whatever the input carries; after markAsRead every contact
\* with the id has read = true and status = 'read'; after markAsReplied every
\* contact with the id has status = 'replied' and the read flag it had, so a
\* contact marked read before is replied and read.
C5_ContactLifecycle ==
    [][/\ Completes("contact") =>
              /\ Len(contacts') = Len(contacts) + 1
              /\ contacts'[1].read = FALSE
              /\ contacts'[1].status = "new"
              /\ contacts'[1]._id = res'.ret.v.contactId
       /\ Completes("markAsRead") =>
              \A i \in 1..Len(contacts') :
                  contacts'[i]._id = res'.arg =>
                      contacts'[i].read = TRUE /\ contacts'[i].status = "read"
       /\ Completes("markAsReplied") =>
              /\ Len(contacts') = Len(contacts)
              /\ \A i \in 1..Len(contacts') :
                    contacts'[i]._id = res'.arg =>
                        /\ contacts'[i].status = "replied"
                        /\ contacts'[i].read = contacts[i].read]_vars

\* a contact went new -> read -> replied
C5_Witness ==
    /\ res.op = "markAsReplied"
    /\ res.hit = 1
    /\ \E i \in 1..Len(contacts) :
          /\ contacts[i]._id = res.arg
          /\ contacts[i].read = TRUE
          /\ contacts[i].status = "replied"

----------------------------------------------------------------------------
(* Persistence *)

\* C6: once a collection has been written and its last write was accepted, the
\* item under its key is JSON.stringify of the whole in-memory collection; so
\* while no write has failed, the document equals the collection from the first
\* completed mutation on.
C6_DurableIsMemory ==
    \A key \in Keys :
        hist[key].write = "ok" => stored[key] = <<stringify(collection(key))>>

\* both documents were written, the project document with a new record in it
C6_Witness ==
    /\ hist[ProjectsKey].write = "ok"
    /\ hist[ContactsKey].write = "ok"
    /\ Len(projects) > Len(INITIAL_PROJECTS)
    /\ contacts # <<>>

----------------------------------------------------------------------------
(* Not-found mutations *)

\* C7: delete, markAsRead, markAsReplied and deleteContact with an id that no
\* record carries complete without throwing and leave both collections as
\* they were; so a second delete of the same id changes nothing.
C7_NotFoundIsNoOp ==
    [][(/\ res'.n = res.n + 1
        /\ res'.op \in {"delete", "markAsRead", "markAsReplied", "deleteContact"}
        /\ res'.hit = 0) =>
          /\ res'.ret.kind # "throw"
          /\ projects' = projects
          /\ contacts' = contacts]_vars

\* delete completed for the id of a project deleted before
C7_Witness ==
    /\ res.op = "delete"
    /\ res.hit = 0
    /\ res.arg \in hist[ProjectsKey].ever

----------------------------------------------------------------------------
(* Sorted reads *)

\* C8: fetchAll and getContacts resolve to the records of the in-memory
\* collection, each as often as it is there, ordered by createdAt descending,
\* whatever the order inside the collection.
C8_SortedReads ==
    [][/\ Completes("fetchAll") =>
              sameRecords(res'.ret.v, projects) /\ newestFirst(res'.ret.v)
       /\ Completes("getContacts") =>
              sameRecords(res'.ret.v, contacts) /\ newestFirst(res'.ret.v)]_vars

\* fetchAll returned the projects in another order than the collection holds them
C8_Witness ==
    /\ res.op = "fetchAll"
    /\ Len(res.ret.v) > Len(INITIAL_PROJECTS)
    /\ res.ret.v # projects
    /\ newestFirst(res.ret.v)

----------------------------------------------------------------------------
(* save: returned value, immutable fields *)

\* C9: every save resolves to the record stored by the call: for an input
\* with an _id the record of the collection that carries the _id, after the
\* merge; for an input without one the new record, the first of the collection.
C9_SaveReturnsStored ==
    [][Completes("save") =>
          /\ res'.ret.kind = "value"
          /\ IF HasId(res'.arg)
             THEN /\ res'.ret.v._id = res'.arg._id
                  /\ \E i \in 1..Len(projects') : projects'[i] = res'.ret.v
             ELSE /\ Len(projects') = Len(projects) + 1
                  /\ res'.ret.v = projects'[1]]_vars

\* C10: a project that is in the collection before and after a step has the
\* same _id and the same createdAt before and after.
C10_IdAndCreatedAtImmutable ==
    [][/\ Len(projects') = Len(projects) =>
              \A i \in 1..Len(projects) :
                  /\ projects'[i]._id = projects[i]._id
                  /\ projects'[i].createdAt = projects[i].createdAt
       /\ \A i \in 1..Len(projects) : \A j \in 1..Len(projects') :
              projects'[j]._id = projects[i]._id =>
                  projects'[j].createdAt = projects[i].createdAt]_vars

----------------------------------------------------------------------------
(* Load *)

fallback(key) == IF key = ProjectsKey THEN INITIAL_PROJECTS ELSE <<>>

\* C11: when the item under a key is absent, cannot be read, or is not the
\* JSON of an array (not JSON at all, or the JSON of something else), the
\* constructed service holds the fallback for that key (the seed projects,
\* the empty contact list); and no call on the service ever throws.
C11_LoadNeverFails ==
    /\ res.n = 0 =>
          \A key \in Keys :
              (hist[key].load # "parsed" \/ stored[key][1].json # "array") =>
                  shape[key] = "array" /\ collection(key) = fallback(key)
    /\ res.ret.kind # "throw"

----------------------------------------------------------------------------
(* Failed writes *)

\* C12: a mutating call whose localStorage write fails resolves without
\* throwing, leaves both items of localStorage as they were, and has its
\* effect on the in-memory collection (the new record is in front, the deleted
\* id is gone, the marked contacts are marked, the updated project carries
\* the new updatedAt); and while the last write of a collection has failed,
\* fetchAll / getContacts resolve to the records of the in-memory collection.
C12_SaveFailureAbsorbed ==
    [][/\ (res'.n = res.n + 1 /\ faults' = faults + 1) =>
              /\ res'.ret.kind # "throw"
              /\ stored' = stored
              /\ res'.op = "contact" =>
                    /\ Len(contacts') = Len(contacts) + 1
                    /\ contacts'[1]._id = res'.ret.v.contactId
              /\ (res'.op = "save" /\ ~HasId(res'.arg)) =>
                    /\ Len(projects') = Len(projects) + 1
                    /\ projects'[1] = res'.ret.v
              /\ (res'.op = "save" /\ HasId(res'.arg)) =>
                    \A i \in 1..Len(projects') :
                        projects'[i]._id = res'.arg._id =>
                            projects'[i].updatedAt = toISOString(now)
              /\ res'.op = "delete" =>
                    \A i \in 1..Len(projects') : projects'[i]._id # res'.arg
              /\ res'.op = "deleteContact" =>
                    \A i \in 1..Len(contacts') : contacts'[i]._id # res'.arg
              /\ res'.op = "markAsRead" =>
                    \A i \in 1..Len(contacts') :
                        contacts'[i]._id = res'.arg => contacts'[i].read
              /\ res'.op = "markAsReplied" =>
                    \A i \in 1..Len(contacts') :
                        contacts'[i]._id = res'.arg => contacts'[i].status = "replied"
       /\ (Completes("fetchAll") /\ hist[ProjectsKey].write = "failed") =>
              sameRecords(res'.ret.v, projects')
       /\ (Completes("getContacts") /\ hist[ContactsKey].write = "failed") =>
              sameRecords(res'.ret.v, contacts')]_vars

\* the write of a second contact failed: the item holds one contact, the
\* collection two
C12_Witness ==
    /\ res.op = "contact"
    /\ hist[ContactsKey].write = "failed"
    /\ stored[ContactsKey] # <<>>
    /\ Len(stored[ContactsKey][1].v) = 1
    /\ Len(contacts) = 2

----------------------------------------------------------------------------
(* Poller *)

\* C13: a step emits a notification exactly when it is an evaluation of the
\* poller (on mount or on an interval tick) at which getUnreadCount() > 0, the
\* document is hidden and the permission is 'granted', and then it emits one;
\* so none is emitted while the permission is 'denied' or 'default' or the
\* document is visible.
C13_NotificationGuard ==
    [][/\ polled'.evaluations \in {polled.evaluations, polled.evaluations + 1}
       /\ polled'.notifications - polled.notifications =
              IF /\ polled'.evaluations = polled.evaluations + 1
                 /\ getUnreadCount(contacts) > 0
                 /\ hidden
                 /\ permission = "granted"
              THEN 1 ELSE 0]_vars

\* of several evaluations with unread contacts, one emitted a notification
\* and another did not
C13_Witness ==
    /\ polled.evaluations >= 2
    /\ polled.notifications = 1
    /\ unreadCount > 0
    /\ Len(contacts) = 1

\* C14: the poller evaluates and notifies only for a mounted owner: a step
\* that evaluates getUnreadCount() for the poller or emits a notification ends
\* with the admin view mounted; and the interval timer exists exactly while
\* the view is mounted, one timer at most.
C14_PollerTeardown ==
    [][/\ (polled'.evaluations # polled.evaluations
            \/ polled'.notifications # polled.notifications) => mounted'
       /\ Len(pollTimers') = IF mounted' THEN 1 ELSE 0]_vars

\* the view was unmounted after its interval had fired, and no timer is left
C14_Witness ==
    /\ ~mounted
    /\ polled.activations = 1
    /\ polled.evaluations >= 2
    /\ timers = <<>>

\* C15: Notification.requestPermission() is called only in the step that
\* mounts the admin view for the first time in the session, and only when
\* the permission is 'default'; so it is called at most once.
C15_PermissionRequestedOnce ==
    [][polled'.requests # polled.requests =>
          /\ polled.requests = 0
          /\ polled.activations = 0
          /\ polled'.requests = 1
          /\ permission = "default"
          /\ ~mounted /\ mounted']_vars

----------------------------------------------------------------------------
(* Debounce *)

\* C16 as stated: the debounced value changes only when the debounce timer
\* fires; the timer fires once for a burst of changes of the search box, one
\* quiet period after the last of them, and the debounced value then changes,
\* to the value the box holds.
C16_DebounceChangesOnce ==
    [][/\ debouncedSearchTerm' # debouncedSearchTerm => settled'.fired = settled.fired + 1
       /\ (settled'.fired = settled.fired + 1 /\ settled.typed > 0) =>
              /\ settled.fired = 0
              /\ now = settled.typedAt + DEBOUNCE
              /\ debouncedSearchTerm' = searchTerm
              /\ debouncedSearchTerm' # debouncedSearchTerm]_vars

\* C16 as amended: the debounced value changes only when the debounce timer
\* fires; the timer fires once for a burst of changes of the search box, one
\* quiet period after the last of them, and the debounced value is then the
\* value the box holds: one change, or none when the box is back at the
\* value the debounced value already has.
C16_DebounceSupersedes ==
    [][/\ debouncedSearchTerm' # debouncedSearchTerm => settled'.fired = settled.fired + 1
       /\ (settled'.fired = settled.fired + 1 /\ settled.typed > 0) =>
              /\ settled.fired = 0
              /\ now = settled.typedAt + DEBOUNCE
              /\ debouncedSearchTerm' = searchTerm
              /\ settled'.emitted = IF searchTerm # debouncedSearchTerm THEN 1 ELSE 0]_vars

\* three changes of the box less than a quiet period apart, one change of the
\* debounced value, to the last value
C16_Witness ==
    /\ settled.typed = 3
    /\ settled.fired = 1
    /\ settled.emitted = 1
    /\ debouncedSearchTerm = searchTerm
    /\ now > settled.typedAt
    /\ settled.typedAt >= Clock0 + 2 * Pause

----------------------------------------------------------------------------
(* Ordering of one caller's operations *)

\* C17: a read resolves to the records of the in-memory collection as it is
\* when the read completes, so it shows the call that completed just before
\* it: the contact or project that call created, the marks it set, the
\* absence of what it deleted; and a mark or delete that completes right
\* after the create of its record finds that record.
C17_ReadYourWrites ==
    [][/\ Completes("getContacts") =>
              /\ sameRecords(res'.ret.v, contacts')
              /\ (res.op = "contact" /\ res.ret.kind = "value") =>
                    \E i \in 1..Len(res'.ret.v) : res'.ret.v[i]._id = res.ret.v.contactId
              /\ res.op = "markAsRead" =>
                    \A i \in 1..Len(res'.ret.v) :
                        res'.ret.v[i]._id = res.arg => res'.ret.v[i].read
              /\ res.op = "markAsReplied" =>
                    \A i \in 1..Len(res'.ret.v) :
                        res'.ret.v[i]._id = res.arg => res'.ret.v[i].status = "replied"
              /\ res.op = "deleteContact" =>
                    \A i \in 1..Len(res'.ret.v) : res'.ret.v[i]._id # res.arg
       /\ Completes("fetchAll") =>
              /\ sameRecords(res'.ret.v, projects')
              /\ (res.op = "save" /\ res.ret.kind = "value") =>
                    \E i \in 1..Len(res'.ret.v) : res'.ret.v[i] = res.ret.v
              /\ res.op = "delete" =>
                    \A i \in 1..Len(res'.ret.v) : res'.ret.v[i]._id # res.arg
       /\ (Completes("markAsRead") /\ res.op = "contact" /\ res.ret.kind = "value"
              /\ res'.arg = res.ret.v.contactId) =>
              \E i \in 1..Len(contacts') : contacts'[i]._id = res'.arg /\ contacts'[i].read
       /\ (Completes("delete") /\ res.op = "save" /\ res.ret.kind = "value"
              /\ res'.arg = res.ret.v._id) =>
              /\ Len(projects') < Len(projects)
              /\ \A i \in 1..Len(projects') : projects'[i]._id # res'.arg]_vars

\* getContacts, called after the contact was created, resolved to it
C17_Witness ==
    /\ res.op = "getContacts"
    /\ Len(res.ret.v) = 1
    /\ DateValue(res.ret.v[1].createdAt) + FETCH <= now

----------------------------------------------------------------------------
(* contact *)

\* C19 as stated: contact() puts exactly one record in front of the contacts,
\* with an id the collection never held, createdAt the time of completion,
\* read false and status 'new', and the name, email and message of the input;
\* the contacts that were there follow unchanged; it resolves to success, the
\* acknowledgment and the id of the new record.
C19_ContactCreatesFresh ==
    [][Completes("contact") =>
          /\ Len(contacts') = Len(contacts) + 1
          /\ Tail(contacts') = contacts
          /\ contacts'[1]._id \notin hist[ContactsKey].ever
          /\ contacts'[1].createdAt = toISOString(now)
          /\ contacts'[1].read = FALSE
          /\ contacts'[1].status = "new"
          /\ \A f \in {"name", "email", "message"} : contacts'[1][f] = res'.arg[f]
          /\ res'.ret.kind = "value"
          /\ res'.ret.v.success
          /\ res'.ret.v.message # ""
          /\ res'.ret.v.contactId = contacts'[1]._id]_vars

\* C19 as amended: the same, with the id 'c' + clock reading + random suffix,
\* which the collection never held unless an earlier contact drew the same
\* clock reading and suffix.
C19_ContactCreates ==
    [][Completes("contact") =>
          /\ Len(contacts') = Len(contacts) + 1
          /\ Tail(contacts') = contacts
          /\ contacts'[1]._id = <<"c">> \o Digits(res'.draw[1]) \o res'.draw[2]
          /\ res'.draw[1] = now
          /\ contacts'[1]._id \in hist[ContactsKey].ever =>
                res'.draw \in hist[ContactsKey].draws
          /\ contacts'[1].createdAt = toISOString(now)
          /\ contacts'[1].read = FALSE
          /\ contacts'[1].status = "new"
          /\ \A f \in {"name", "email", "message"} : contacts'[1][f] = res'.arg[f]
          /\ res'.ret.kind = "value"
          /\ res'.ret.v.success
          /\ res'.ret.v.message # ""
          /\ res'.ret.v.contactId = contacts'[1]._id]_vars

\* a second contact was put in front of the first, with another id
C19_Witness ==
    /\ res.op = "contact"
    /\ Len(contacts) = 2
    /\ contacts[1]._id = res.ret.v.contactId
    /\ contacts[1]._id # contacts[2]._id

----------------------------------------------------------------------------
(* Footprint of the marks *)

\* C20: markAsRead changes nothing but the read and status fields of the
\* contacts with the id, markAsReplied nothing but their status field (the
\* read flag stays, also when it is false); both leave the other contacts,
\* the number and order of the contacts and the projects as they were.
C20_MarkFootprint ==
    [][(Completes("markAsRead") \/ Completes("markAsReplied")) =>
          /\ projects' = projects
          /\ Len(contacts') = Len(contacts)
          /\ \A i \in 1..Len(contacts) :
                IF contacts[i]._id = res'.arg
                THEN /\ DOMAIN contacts'[i] = DOMAIN contacts[i]
                     /\ \A f \in DOMAIN contacts[i] \
                              (IF res'.op = "markAsRead" THEN {"read", "status"}
                               ELSE {"status"}) :
                            contacts'[i][f] = contacts[i][f]
                ELSE contacts'[i] = contacts[i]]_vars

\* a new contact was marked replied and is still unread, behind another contact
C20_Witness ==
    /\ res.op = "markAsReplied"
    /\ res.hit = 1
    /\ Len(contacts) = 2
    /\ contacts[2]._id = res.arg
    /\ contacts[2].status = "replied"
    /\ contacts[2].read = FALSE
    /\ contacts[1]._id # res.arg

----------------------------------------------------------------------------
(* Completion *)

\* the step attempts the write of the collection: the item becomes the text
\* of the collection, or setItem throws
attemptsWrite(key) ==
    \/ faults' = faults + 1
    \/ stored'[key] = <<stringify(collection(key)')>>

\* C18: every call that was made completes (its timer fires, whatever else
\* happens meanwhile), and a call of a mutating method completes by changing
\* the in-memory collection as the method says and attempting the write of
\* the item, not by throwing.
C18_EveryCallTakesEffect ==
    /\ \A k \in 1..MaxCalls : [](issued.all >= k => <>(res.n >= k))
    /\ [][/\ res'.n = res.n + 1 => res'.ret.kind # "throw"
          /\ (res'.n = res.n + 1 /\ res'.op \in {"save", "delete"}) =>
                attemptsWrite(ProjectsKey)
          /\ (res'.n = res.n + 1
                /\ res'.op \in {"contact", "markAsRead", "markAsReplied", "deleteContact"}) =>
                attemptsWrite(ContactsKey)]_vars

----------------------------------------------------------------------------
(* ContactManager: the selector buttons over the loaded contacts *)

\* lists fetched into the contact view hold at most this many contacts
MaxShown == 2

Selectors == {"all", "new", "read", "replied"}

\* contacts as getContacts resolves them, with the fields the filter reads:
\* every pairing of the read flag with a status
Showable ==
    {[_id |-> <<"c", IF r THEN "1" ELSE "0">> \o <<st>>, read |-> r, status |-> st] :
        r \in BOOLEAN, st \in {"new", "read", "replied"}}

\* the 'read' selector answering with every read contact
filteredContacts_replied(list, selector) ==
    SelectSeq(list, LAMBDA contact :
        IF selector = "all" THEN TRUE
        ELSE IF selector = "new" THEN ~contact.read
        ELSE IF selector = "read" THEN contact.read
        ELSE IF selector = "replied" THEN contact.status = "replied"
        ELSE TRUE)

\* filteredContacts = contacts.filter(contact => ...)
filteredContacts(list, selector) ==
    SelectSeq(list, LAMBDA contact :
        IF selector = "all" THEN TRUE
        ELSE IF selector = "new" THEN ~contact.read
        ELSE IF selector = "read" THEN contact.read /\ contact.status # "replied"
        ELSE IF selector = "replied" THEN contact.status = "replied"
        ELSE TRUE)

\* onClick of a selector button: setFilter(filterType)
setFilter ==
    /\ \E filterType \in Selectors \ {filter} : filter' = filterType
    /\ UNCHANGED <<service, now, timers, poller, search, listed, selectedTechnology,
                   listMounted, contactsShown>>

\* ContactManager with a list loaded and the selector 'all'
InitContactFilter ==
    /\ constructor([k \in Keys |-> <<>>], [k \in Keys |-> TRUE])
    /\ now = Clock0
    /\ timers = <<>>
    /\ permission = "default"
    /\ hidden = FALSE
    /\ pageAtStart
    /\ listed = <<>>
    /\ selectedTechnology = All
    /\ listMounted = FALSE
    /\ contactsShown \in ListsOf(Showable, MaxShown)
    /\ filter = "all"

SpecContactFilter == InitContactFilter /\ [][setFilter]_vars

----------------------------------------------------------------------------
(* The project filter *)

React == <<"R", "e", "a", "c", "t">>

\* the two are one letter, whatever their case
sameLetter(a, b) ==
    \/ a = b
    \/ a \in DOMAIN LowerOf /\ LowerOf[a] = b
    \/ b \in DOMAIN LowerOf /\ LowerOf[b] = a

\* the term is a substring of the text, case ignored
containsIgnoringCase(text, term) ==
    \E k \in 0..(Len(text) - Len(term)) :
        \A i \in 1..Len(term) : sameLetter(text[k + i], term[i])

facetHolds(p, facet) ==
    facet = All \/ (Has(p, "technologies") /\ \E j \in 1..Len(p.technologies) :
                                                  p.technologies[j] = facet)

termHolds(p, term) ==
    \/ term = <<>>
    \/ containsIgnoringCase(p.title, term)
    \/ containsIgnoringCase(p.description, term)
    \/ Has(p, "technologies") /\ \E j \in 1..Len(p.technologies) :
                                    containsIgnoringCase(p.technologies[j], term)

\* C21: the filtered list is the projects of the list, in their order, that
\* satisfy both the facet (it is 'All' or among the project's technologies)
\* and the debounced term (it is empty or a substring, case ignored, of the
\* title, the description or a technology); facet 'React' over [Shop, Chat]
\* gives [Shop], facet 'All' with term 'chat' gives [Chat].
C21_FilterComposesByAnd ==
    LET result == filteredProjects(listed, selectedTechnology, debouncedSearchTerm) IN
    /\ result = SelectSeq(listed, LAMBDA p : /\ facetHolds(p, selectedTechnology)
                                             /\ termHolds(p, debouncedSearchTerm))
    /\ (listed = <<Shop, Chat>> /\ selectedTechnology = React /\ debouncedSearchTerm = <<>>)
          => result = <<Shop>>
    /\ (listed = <<Shop, Chat>> /\ selectedTechnology = All
          /\ debouncedSearchTerm = <<"c", "h", "a", "t">>) => result = <<Chat>>

\* facet React and term 'o' over [Shop, Chat]: Chat has the term in a
\* technology but not the facet, Shop has both
C21_Witness ==
    /\ listed = <<Shop, Chat>>
    /\ selectedTechnology = React
    /\ debouncedSearchTerm = <<"o">>
    /\ filteredProjects(listed, selectedTechnology, debouncedSearchTerm) = <<Shop>>

----------------------------------------------------------------------------
(* The contact filter *)

RECURSIVE keptOf(_, _)
\* the result is the list with some elements left out, the others in their order
keptOf(list, result) ==
    IF result = <<>> THEN TRUE
    ELSE IF list = <<>> THEN FALSE
    ELSE IF Head(list) = Head(result) THEN keptOf(Tail(list), Tail(result))
    ELSE keptOf(Tail(list), result)

\* C22: 'all' gives every contact, 'new' the contacts with read false, 'read'
\* those with read true and a status other than 'replied', 'replied' those
\* with status 'replied'; the order of the list is kept.
C22_ContactFilter ==
    LET result == filteredContacts(contactsShown, filter)
        wanted(contact) ==
            CASE filter = "all" -> TRUE
              [] filter = "new" -> contact.read = FALSE
              [] filter = "read" -> contact.read = TRUE /\ contact.status # "replied"
              [] filter = "replied" -> contact.status = "replied"
        count(list, contact) == Cardinality({i \in 1..Len(list) : list[i] = contact})
    IN  /\ keptOf(contactsShown, result)
        /\ \A contact \in Showable :
              count(result, contact) = IF wanted(contact) THEN count(contactsShown, contact)
                                       ELSE 0
        /\ filter = "all" => result = contactsShown

\* selector 'read' over a read contact and a read one that was replied to:
\* the first only
C22_Witness ==
    /\ filter = "read"
    /\ Len(contactsShown) = 2
    /\ contactsShown[1].read /\ contactsShown[1].status = "read"
    /\ contactsShown[2].read /\ contactsShown[2].status = "replied"
    /\ filteredContacts(contactsShown, filter) = <<contactsShown[1]>>

----------------------------------------------------------------------------
(* Overlapping calls *)

\* what a completing mutation makes of the collection it works on, given the
\* collection as it is when the timer fires: a create puts one record in
\* front of all of it, a delete leaves out the records with the id and no
\* other, an update or a mark changes records with the id only
appliedTo(before, after, op, arg) ==
    CASE op = "contact" \/ (op = "save" /\ ~HasId(arg)) ->
            /\ Len(after) = Len(before) + 1
            /\ Tail(after) = before
      [] op \in {"delete", "deleteContact"} ->
            /\ keptOf(before, after)
            /\ \A x \in Range(before) :
                  occurrences(after, x) = IF x._id = arg THEN 0 ELSE occurrences(before, x)
      [] op = "save" /\ HasId(arg) ->
            /\ Len(after) = Len(before)
            /\ \A i \in 1..Len(before) : before[i]._id # arg._id => after[i] = before[i]
      [] op \in {"markAsRead", "markAsReplied"} ->
            /\ Len(after) = Len(before)
            /\ \A i \in 1..Len(before) : before[i]._id # arg => after[i] = before[i]

\* C23: a mutation that completes works on the whole collection as it is at
\* that moment, in one step with its write, whatever calls are suspended
\* meanwhile: nothing an earlier-completing call did is lost.  Two creates
\* both stay, a create and a delete of another record both take effect, and
\* an accepted write leaves the document equal to the collection.
C23_NoLostUpdate ==
    [][/\ (res'.n = res.n + 1 /\ res'.op \in {"save", "delete"}
              /\ res'.ret.kind # "throw") =>
              /\ appliedTo(projects, projects', res'.op, res'.arg)
              /\ contacts' = contacts
              /\ stored'[ContactsKey] = stored[ContactsKey]
              /\ faults' = faults => stored'[ProjectsKey] = <<stringify(projects')>>
       /\ (res'.n = res.n + 1
              /\ res'.op \in {"contact", "markAsRead", "markAsReplied", "deleteContact"}) =>
              /\ appliedTo(contacts, contacts', res'.op, res'.arg)
              /\ projects' = projects
              /\ stored'[ProjectsKey] = stored[ProjectsKey]
              /\ faults' = faults => stored'[ContactsKey] = <<stringify(contacts')>>]_vars

\* two contact calls were suspended at the same time (the later record was
\* made less than the delay of a contact call after the earlier one): both
\* records are in the collection and in the document
C23_Witness ==
    /\ res.op = "contact"
    /\ Len(contacts) = 2
    /\ contacts[1]._id # contacts[2]._id
    /\ DateValue(contacts[1].createdAt) - DateValue(contacts[2].createdAt) < CONTACT
    /\ stored[ContactsKey] = <<stringify(contacts)>>

----------------------------------------------------------------------------
(* Completion order *)

\* the delay of the method
delayOf(op) ==
    CASE op = "save" -> SAVE
      [] op = "delete" -> DELETE
      [] op = "contact" -> CONTACT
      [] op \in {"fetchAll", "getContacts"} -> FETCH
      [] op = "markAsRead" -> MARK_READ
      [] op = "markAsReplied" -> MARK_REPLIED
      [] op = "deleteContact" -> DELETE

\* the clock reading at which the call was made
issuedAt(call) == call.due - delayOf(call.op)

\* the call before was delete(id), and it was made after the save that now
\* completes, less than SAVE - DELETE = 300 ms later
deleteOvertook ==
    /\ Completes("save")
    /\ HasId(res'.arg)
    /\ res.op = "delete"
    /\ res.arg = res'.arg._id
    /\ issuedAt(res) - issuedAt(res') \in 0..(SAVE - DELETE - 1)

\* no record of the project document carries the id
absentFromDocument(item, id) ==
    item = <<>> \/ \A i \in 1..Len(item[1].v) : item[1].v[i]._id # id

\* C24 as stated: a delete of P made less than 300 ms after an update of P is
\* applied first; the update then matches no record, and afterwards P is in
\* neither the in-memory collection nor the document.
C24_DeleteAppliedFirst ==
    [][/\ deleteOvertook =>
              /\ res'.hit = 0
              /\ \A i \in 1..Len(projects') : projects'[i]._id # res.arg
              /\ absentFromDocument(stored'[ProjectsKey], res.arg)
       /\ (Completes("delete") /\ res.op = "save" /\ HasId(res.arg)
              /\ res.arg._id = res'.arg) =>
              issuedAt(res') - issuedAt(res) \notin 0..(SAVE - DELETE - 1)]_vars

\* C24 as amended: the same, P being absent from the document provided the
\* write of the delete or the write of the update was accepted.
C24_DeleteAppliedFirstIfWritten ==
    [][/\ deleteOvertook =>
              /\ res'.hit = 0
              /\ projects' = projects
              /\ \A i \in 1..Len(projects') : projects'[i]._id # res.arg
              /\ (\/ hist[ProjectsKey].write = "ok"
                  \/ (res'.ret.kind # "throw" /\ faults' = faults)) =>
                    absentFromDocument(stored'[ProjectsKey], res.arg)
       /\ (Completes("delete") /\ res.op = "save" /\ HasId(res.arg)
              /\ res.arg._id = res'.arg) =>
              issuedAt(res') - issuedAt(res) \notin 0..(SAVE - DELETE - 1)]_vars

\* delete(P) has removed P while the update of P, made earlier but less than
\* 300 ms earlier, is still suspended
C24_Witness ==
    /\ res.op = "delete"
    /\ res.hit = 1
    /\ \E k \in 1..Len(timers) :
          /\ timers[k].op = "save"
          /\ HasId(timers[k].arg)
          /\ timers[k].arg._id = res.arg
          /\ issuedAt(res) - issuedAt(timers[k]) \in 1..(SAVE - DELETE - 1)
    /\ \A i \in 1..Len(projects) : projects[i]._id # res.arg

----------------------------------------------------------------------------
(* Update of a project that is not there *)

\* C25: save with an _id that no record carries completes without throwing,
\* leaves the in-memory projects as they were and resolves to undefined.
C25_UnknownIdSaveIsNoOp ==
    [][(Completes("save") /\ HasId(res'.arg) /\ res'.hit = 0) =>
          /\ res'.ret.kind # "throw"
          /\ projects' = projects
          /\ res'.ret = ReturnedUndefined]_vars

----------------------------------------------------------------------------
(* Read flag and status *)

\* C26: from an empty contact collection on, every contact has a status of
\* new, read or replied; a new contact is unread and a contact of status read
\* is read (a replied one may be either); and every contact is shown by at
\* least one of the selectors new, read, replied.
C26_ReadStatusConsistent ==
    \A i \in 1..Len(contacts) :
        /\ contacts[i].status \in {"new", "read", "replied"}
        /\ contacts[i].status = "new" => contacts[i].read = FALSE
        /\ contacts[i].status = "read" => contacts[i].read = TRUE
        /\ \E selector \in {"new", "read", "replied"} :
              filteredContacts(<<contacts[i]>>, selector) # <<>>

\* a new contact in front of one that was replied to unread: 'new' shows both,
\* 'replied' the second, 'read' none
C26_Witness ==
    /\ Len(contacts) = 2
    /\ contacts[1].status = "new"
    /\ contacts[2].status = "replied" /\ contacts[2].read = FALSE
    /\ filteredContacts(contacts, "new") = contacts
    /\ filteredContacts(contacts, "replied") = <<contacts[2]>>
    /\ filteredContacts(contacts, "read") = <<>>

----------------------------------------------------------------------------
(* The count of the poller *)

\* the step runs checkForNewMessages()
Evaluates == polled'.evaluations = polled.evaluations + 1

\* C27: the count of the poller is 0 before its first evaluation, is set to
\* getUnreadCount() at every evaluation and changes at no other step, so
\* between evaluations it can differ from getUnreadCount(); when the timers
\* fire, a count that differs is followed by an evaluation that makes it
\* equal again (as long as the owner stays mounted and the run goes on), and
\* it stays equal while the contacts do not change.
C27_CountIsSampled ==
    /\ [](polled.evaluations = 0 => unreadCount = 0)
    /\ [][/\ Evaluates => unreadCount' = getUnreadCount(contacts')
          /\ ~Evaluates => unreadCount' = unreadCount
          /\ (unreadCount = getUnreadCount(contacts) /\ contacts' = contacts) =>
                unreadCount' = getUnreadCount(contacts')]_vars
    /\ [](mounted /\ unreadCount # getUnreadCount(contacts) =>
             <>(\/ unreadCount = getUnreadCount(contacts)
                \/ ~mounted
                \/ polled.evaluations = MaxEvaluations))

\* the poller counted one unread contact; the contact was read since, and the
\* count still says one
C27_Witness ==
    /\ mounted
    /\ polled.evaluations \in 1..(MaxEvaluations - 1)
    /\ unreadCount = 1
    /\ getUnreadCount(contacts) = 0
    /\ res.op = "markAsRead"

----------------------------------------------------------------------------
(* Repeated notifications *)

\* C28: every evaluation at which there are unread contacts, the document is
\* hidden and the permission is 'granted' emits a notification, also when the
\* count is the one of the evaluation before, and no other step emits one: the
\* notifications are as many as those evaluations.
C28_NotDeduplicated ==
    /\ [](polled.notifications <= polled.evaluations)
    /\ [][/\ (/\ Evaluates
              /\ getUnreadCount(contacts) > 0
              /\ hidden
              /\ permission = "granted") =>
                 polled'.notifications = polled.notifications + 1
          /\ polled'.notifications # polled.notifications =>
                 (Evaluates /\ getUnreadCount(contacts) > 0 /\ hidden
                     /\ permission = "granted")]_vars

\* two evaluations in a row, no call completed in between, the same count at
\* both: two notifications
C28_Witness ==
    /\ polled.evaluations = 2
    /\ polled.notifications = 2
    /\ res.n = 0
    /\ unreadCount = 1

----------------------------------------------------------------------------
(* Reload *)

\* C29: whenever no call is suspended and no write has failed, a service
\* constructed from localStorage as it is (the page reloaded) holds the same
\* projects and the same contacts, record for record and in the same order,
\* as the service at hand; also before the first write, when both hold the
\* defaults.
C29_ReloadRoundTrip ==
    (suspended = <<>> /\ faults = 0) =>
        /\ loadFromStorage(stored, TRUE) = Value("array", projects)
        /\ loadContactsFromStorage(stored, TRUE) = Value("array", contacts)

----------------------------------------------------------------------------
(* Settling and teardown of the debounce *)

debounceTimers == SelectSeq(timers, LAMBDA t : t.op = "debounce")

\* C30: the debounced value is always a value the search box has held (the
\* first, empty one included); once it equals the box it stays equal as long
\* as the box does not change; when the timer fires, a debounced value that
\* differs from the box becomes equal to it, unless the list is unmounted
\* first; and unmounting the list clears the pending timer, after which the
\* debounced value never changes.
C30_DebounceSettles ==
    /\ [](debouncedSearchTerm \in settled.held)
    /\ [][/\ (debouncedSearchTerm = searchTerm /\ searchTerm' = searchTerm) =>
                debouncedSearchTerm' = searchTerm'
          /\ ~listMounted' => debounceTimers' = <<>>
          /\ ~listMounted => debouncedSearchTerm' = debouncedSearchTerm]_vars
    /\ [](listMounted /\ debouncedSearchTerm # searchTerm =>
             <>(debouncedSearchTerm = searchTerm \/ ~listMounted))

\* the list was unmounted a Pause or more after a change of the box whose
\* emission was pending: no timer is left, and the debounced value is not the
\* value of the box
C30_Witness ==
    /\ ~listMounted
    /\ settled.typed > 0
    /\ settled.fired = 0
    /\ now > settled.typedAt
    /\ debouncedSearchTerm # searchTerm
    /\ debounceTimers = <<>>

====
